---- MODULE Spec2Model ----
(***************************************************************************)
(* Pocket to browser bookmarks exporter (main.py).                         *)
(*                                                                         *)
(* The model follows one execution of main(): authorization, fetch,        *)
(* load + backup, merge (create_pocket_folder) and save, over the files    *)
(* on disk (the bookmark file and its backup), the in-memory bookmark      *)
(* document and the wall clock that now_chrome_ts() reads.                 *)
(*                                                                         *)
(* Representation of values                                                *)
(*   - a Python dict is a TLA+ record (a function on its keys); a key that *)
(*     is absent in the dict is absent from the record's DOMAIN;           *)
(*   - a Python list is a sequence;                                        *)
(*   - Python None is the value None below; "" is the empty string;       *)
(*   - a timestamp string str(us) is represented by the integer us (str on *)
(*     integers is injective, so equality of identifiers is preserved).    *)
(*     now_chrome_ts() returns EPOCH_OFFSET plus the Unix time in          *)
(*     microseconds, about 1.3 * 10^16; the model counts the clock from    *)
(*     ClockStart, which keeps what matters of that magnitude: a reading   *)
(*     of this run is above every identifier and timestamp a bookmark      *)
(*     file holds when the run starts.                                     *)
(***************************************************************************)
EXTENDS Integers, Sequences, FiniteSets, TLC

VARIABLES
    pc,              \* position of main(): the stage about to run, or its end
    CONSUMER_KEY,    \* global CONSUMER_KEY, as entered at the prompt
    ACCESS_TOKEN,    \* global ACCESS_TOKEN ("" until authorization returns)
    user_authorized, \* the user has completed the out-of-band authorization
    polls,           \* rounds the poll loop of get_pocket_access_token has made
    items,           \* items returned by fetch_pocket_items
    file,            \* content of BOOKMARKS_FILE on disk
    backup,          \* content of BACKUP_FILE on disk
    bookmarks_json,  \* the in-memory bookmark document
    clock,           \* the wall clock, in Chrome microseconds
    msg,             \* the error message the program printed, None if none
    run              \* number of the current execution of main() (1, 2, ...)

vars == <<pc, CONSUMER_KEY, ACCESS_TOKEN, user_authorized, polls, items, file,
          backup, bookmarks_json, clock, msg, run>>

----------------------------------------------------------------------------
(* Bounds of the model *)

\* longest list of items the service returns
MaxItems == 2

\* the poll counter saturates here (the loop itself is not bounded)
MaxPolls == 2

\* first clock value of the first run; above every identifier and timestamp
\* stored in the bookmark files of InitialFiles
ClockStart == 100

----------------------------------------------------------------------------
(* Python values *)

None == "<None>"

\* dict.get(key): the value, or None when the key is absent
Get(d, key) == IF key \in DOMAIN d THEN d[key] ELSE None

\* truth value of a str-or-None value: None and "" are false
Truthy(v) == v # None /\ v # ""

\* Python's `a or b`
Or(a, b) == IF Truthy(a) THEN a ELSE b

----------------------------------------------------------------------------
(* Bookmark nodes and documents (the Chrome / Edge "Bookmarks" JSON) *)

Bookmark(name, url, date_added, id) ==
    [type |-> "url", name |-> name, url |-> url,
     date_added |-> date_added, id |-> id]

Folder(name, children, date_added, id) ==
    [type |-> "folder", name |-> name, children |-> children,
     date_added |-> date_added, id |-> id]

----------------------------------------------------------------------------
(* Saved items, as the Pocket API returns them *)

\* every field populated: the resolved fields win
Item1 ==
    [item_id |-> "1", resolved_title |-> "Resolved 1", given_title |-> "Given 1",
     resolved_url |-> "http://resolved/1", given_url |-> "http://given/1"]

\* resolved fields empty: the given fields are used
Item2 ==
    [item_id |-> "2", resolved_title |-> "", given_title |-> "Given 2",
     resolved_url |-> "", given_url |-> "http://given/2"]

\* no title at all: the identifier is the name
Item3 == [item_id |-> "3", given_url |-> "http://given/3"]

\* no URL field: not exportable
Item4 == [item_id |-> "4"]

\* both URL fields empty: not exportable
Item5 ==
    [item_id |-> "5", resolved_title |-> "Resolved 5",
     resolved_url |-> "", given_url |-> ""]

ItemKinds == {Item1, Item2, Item3, Item4, Item5}

\* the lists fetch_pocket_items can return: the values of the response's
\* "list" object, which is keyed by item_id, so no item occurs twice
ItemSeqs ==
    UNION {{s \in [1..n -> ItemKinds] : \A i, j \in 1..n : i # j => s[i] # s[j]}
           : n \in 0..MaxItems}

----------------------------------------------------------------------------
(* Bookmark files found on disk *)

BarRoot ==
    Folder("Bookmarks bar", <<Bookmark("News", "http://news", 11, 4)>>, 10, 1)

\* a profile whose "other" root has no children collection yet
DocFresh ==
    [version |-> 1,
     roots |-> [bookmark_bar |-> BarRoot,
                other |-> [type |-> "folder", name |-> "Other bookmarks",
                           date_added |-> 10, id |-> 2]]]

\* a profile exported once before, with look-alikes that are not the export
\* folder: a bookmark of that name, and a folder of that name nested deeper
DocExported ==
    [version |-> 1,
     roots |-> [bookmark_bar |-> BarRoot,
                other |-> Folder("Other bookmarks",
                    <<Folder("Pocket-Export",
                          <<Bookmark("Stale", "http://stale", 40, 41)>>, 40, 40),
                      Bookmark("Pocket-Export", "http://getpocket.com", 12, 5),
                      Folder("Work",
                          <<Folder("Pocket-Export",
                                <<Bookmark("Kept", "http://kept", 14, 8)>>, 13, 7)>>,
                          13, 6)>>,
                    10, 2)]]

\* a profile holding two folders of the export's name under "other"
DocTwice ==
    [version |-> 1,
     roots |-> [bookmark_bar |-> BarRoot,
                other |-> Folder("Other bookmarks",
                    <<Folder("Pocket-Export",
                          <<Bookmark("Resolved 1", "http://resolved/1", 30, 31)>>,
                          30, 30),
                      Bookmark("Example", "http://example.com", 12, 5),
                      Folder("Pocket-Export",
                          <<Bookmark("Stale", "http://stale", 50, 51),
                            Folder("Sub", <<Bookmark("Deep", "http://deep", 53, 54)>>,
                                   52, 52)>>,
                          50, 50)>>,
                    10, 2)]]

\* a JSON file that is not a bookmark document of this store: no "other" root
DocNoOther == [version |-> 1, roots |-> [bookmark_bar |-> BarRoot]]

\* documents create_pocket_folder can merge into
ValidDocs == {DocFresh, DocExported, DocTwice}

----------------------------------------------------------------------------
(* Contents of a file *)

Absent == [kind |-> "absent"]

\* bytes that are not JSON
Garbage == [kind |-> "garbage"]

\* the JSON text of a document; fmt is the layout of the text (the browser's own,
\* or json.dump's with indent=2): two texts are the same bytes only when both the
\* document and the layout agree
Json(doc, fmt) == [kind |-> "json", doc |-> doc, fmt |-> fmt]

\* what open(path, "w") followed by an incomplete write leaves: nothing
\* (the file was truncated) or a prefix of the text
Partial(text, how) == [kind |-> "partial", of |-> text, left |-> how]

PartialKinds == {"empty", "prefix"}

\* json.load
Parseable(content) == content.kind = "json"

json_load(content) == content.doc

\* json.dump(bookmarks_json, f, indent=2, ensure_ascii=False)
json_dump(doc) == Json(doc, "indent2")

InitialFiles ==
    {Absent, Garbage, Json(DocNoOther, "browser")}
    \cup {Json(d, "browser") : d \in ValidDocs}

InitialBackups == {Absent, Json(DocFresh, "browser")}

----------------------------------------------------------------------------
(* now_chrome_ts: readings of the wall clock *)

\* The values n successive calls of now_chrome_ts() can return when the clock
\* shows c at the first of them: between two calls the microsecond clock either
\* has advanced or has not (time.time() has a finite resolution and the calls are
\* a few instructions apart), so readings never decrease and may repeat.
now_chrome_ts(c, n) ==
    {[k \in 1..n |-> c + Cardinality({j \in 2..k : advanced[j]})]
       : advanced \in [2..n -> BOOLEAN]}

----------------------------------------------------------------------------
(* create_pocket_folder *)

PocketExport == "Pocket-Export"

\* the test of the list comprehension: the child is an existing export folder
is_pocket_folder(child) ==
    Get(child, "type") = "folder" /\ Get(child, "name") = PocketExport

\* (variant: only the first export folder is taken out, as list.remove does)
RECURSIVE remove_first_pocket_folder(_)
remove_first_pocket_folder(children) ==
    IF children = <<>> THEN <<>>
    ELSE IF is_pocket_folder(Head(children))
           THEN Tail(children)
           ELSE <<Head(children)>> \o remove_first_pocket_folder(Tail(children))

\* (variant: the filter is left out)
keep_all_children(children) == children

\* children[:] = [child for child in children if not (...)]
RECURSIVE remove_pocket_folders(_)
remove_pocket_folders(children) ==
    IF children = <<>> THEN <<>>
    ELSE IF is_pocket_folder(Head(children))
           THEN remove_pocket_folders(Tail(children))
           ELSE <<Head(children)>> \o remove_pocket_folders(Tail(children))

\* (variant: the given title is preferred to the resolved one)
item_title_given_first(item) ==
    Or(Or(Get(item, "given_title"), Get(item, "resolved_title")),
       Get(item, "item_id"))

\* title = resolved_title or given_title or item_id
item_title(item) ==
    Or(Or(Get(item, "resolved_title"), Get(item, "given_title")),
       Get(item, "item_id"))

\* (variant: no fallback to the given URL)
item_url_resolved_only(item) == Get(item, "resolved_url")

\* url = resolved_url or given_url
item_url(item) == Or(Get(item, "resolved_url"), Get(item, "given_url"))

\* the bookmark appended for an item: two clock readings, date_added then id
item_bookmark(item, date_added, id) ==
    Bookmark(item_title(item), item_url(item), date_added, id)

\* the loop `for item in entries`: children is pocket_folder["children"] so far,
\* ts the clock readings not yet consumed
RECURSIVE add_entries(_, _, _)
add_entries(children, entries, ts) ==
    IF entries = <<>> THEN children
    ELSE IF ~Truthy(item_url(Head(entries)))
           THEN add_entries(children, Tail(entries), ts)
           ELSE add_entries(
                    Append(children, item_bookmark(Head(entries), ts[1], ts[2])),
                    Tail(entries), SubSeq(ts, 3, Len(ts)))

\* the number of now_chrome_ts() calls of one create_pocket_folder call
RECURSIVE clock_reads(_)
clock_reads(entries) ==
    IF entries = <<>> THEN 2
    ELSE (IF Truthy(item_url(Head(entries))) THEN 2 ELSE 0)
         + clock_reads(Tail(entries))

\* bookmarks_json["roots"]["other"] raises KeyError unless both keys exist
has_other_root(doc) == "roots" \in DOMAIN doc /\ "other" \in DOMAIN doc.roots

\* (variant: children.insert(0, pocket_folder))
insert_folder_first(children, pocket_folder) == <<pocket_folder>> \o children

\* children.append(pocket_folder)
insert_folder(children, pocket_folder) == Append(children, pocket_folder)

\* the document after create_pocket_folder(bookmarks_json, entries), given the
\* clock readings ts of its now_chrome_ts() calls, in call order
create_pocket_folder(doc, entries, ts) ==
    LET other == doc.roots.other
        children == IF "children" \in DOMAIN other THEN other.children ELSE <<>>
        kept == remove_pocket_folders(children)
        pocket_folder ==
            Folder(PocketExport,
                   add_entries(<<>>, entries, SubSeq(ts, 3, Len(ts))),
                   ts[1], ts[2])
        new_children == insert_folder(kept, pocket_folder)
        new_other ==
            IF "children" \in DOMAIN other
              THEN [other EXCEPT !.children = new_children]
              ELSE ("children" :> new_children) @@ other
    IN  [doc EXCEPT !.roots.other = new_other]

----------------------------------------------------------------------------
(* The messages of main() and of the handler around it *)

MsgInvalidKey == "Invalid Consumer Key. Please check your Consumer Key and try again."
MsgHttpError == "HTTP Error"
MsgTokenError == "Error obtaining access token"
MsgLoadError == "Error loading bookmarks"
MsgMergeError == "Error creating Pocket folder"
MsgSaveError == "Error saving bookmarks"
MsgUnexpected == "Unexpected error"

\* the consumer keys the service knows
ServiceAccepts(key) == key = "registered-key"

Min(a, b) == IF a < b THEN a ELSE b

\* main() returns after printing message m
Abort(m) == pc' = "aborted" /\ msg' = m

----------------------------------------------------------------------------
(* Initial state: main() is about to authenticate; the consumer key has been
   entered (get_pocket_consumer_key returns only a non-empty key) *)

Init ==
    /\ pc = "authorize"
    /\ CONSUMER_KEY \in {"registered-key", "unknown-key"}
    /\ ACCESS_TOKEN = ""
    /\ user_authorized = FALSE
    /\ polls = 0
    /\ items = <<>>
    /\ file \in InitialFiles
    /\ backup \in InitialBackups
    /\ bookmarks_json = None
    /\ clock = ClockStart
    /\ msg = None
    /\ run = 1

----------------------------------------------------------------------------
(* Step 0b: get_pocket_access_token *)

\* request of the request token (step 1) and opening of the browser (step 2)
RequestToken ==
    /\ pc = "authorize"
    /\ \/ /\ ServiceAccepts(CONSUMER_KEY)
          /\ pc' = "poll"
          /\ msg' = msg
       \/ /\ ~ServiceAccepts(CONSUMER_KEY)      \* 400 / 403: raise_for_status
          /\ Abort(MsgInvalidKey)
       \/ Abort(MsgHttpError)                   \* another HTTP status
       \/ Abort(MsgTokenError)                  \* no connection, no "code"
    /\ UNCHANGED <<CONSUMER_KEY, ACCESS_TOKEN, user_authorized, polls, items,
                   file, backup, bookmarks_json, clock, run>>

\* the user authorizes the application in the browser
UserAuthorizes ==
    /\ pc = "poll"
    /\ ~user_authorized
    /\ user_authorized' = TRUE
    /\ UNCHANGED <<pc, CONSUMER_KEY, ACCESS_TOKEN, polls, items, file, backup,
                   bookmarks_json, clock, msg, run>>

\* one round of the loop that does not return: a status other than 200, or an
\* exception (swallowed), then time.sleep(2)
PollAgain ==
    /\ pc = "poll"
    /\ polls' = Min(polls + 1, MaxPolls)
    /\ UNCHANGED <<pc, CONSUMER_KEY, ACCESS_TOKEN, user_authorized, items, file,
                   backup, bookmarks_json, clock, msg, run>>

\* (variant: the first poll is taken for a success)
poll_succeeds_unconditionally == TRUE

\* the service answers a poll with 200 once the user has authorized
poll_succeeds == user_authorized

\* one round of the loop that returns the access token
PollReturns ==
    /\ pc = "poll"
    /\ poll_succeeds
    /\ ACCESS_TOKEN' = "access-token"
    /\ polls' = Min(polls + 1, MaxPolls)
    /\ pc' = "fetch"
    /\ UNCHANGED <<CONSUMER_KEY, user_authorized, items, file, backup,
                   bookmarks_json, clock, msg, run>>

----------------------------------------------------------------------------
(* Step 1: fetch_pocket_items *)

FetchItems ==
    /\ pc = "fetch"
    /\ \/ /\ items' \in ItemSeqs
          /\ pc' = "load"
          /\ msg' = msg
       \/ /\ Abort(MsgUnexpected)     \* not caught in main(): the handler of
          /\ items' = items           \* the __main__ block reports it
    /\ UNCHANGED <<CONSUMER_KEY, ACCESS_TOKEN, user_authorized, polls, file,
                   backup, bookmarks_json, clock, run>>

----------------------------------------------------------------------------
(* Step 2: load_and_backup_bookmarks. The browser chosen at the prompt of
   detect_os_and_browser fixes the two paths; file and backup are the contents
   found there (nothing is found at the Firefox path, whose "*" is not
   expanded). *)

\* (variant: the copy is left out)
copy2_skipped(src, dst) == dst

\* content of dst after shutil.copy2(src, dst) has completed
copy2(src, dst) == src

\* the stage completes: the copy is made, then the file is parsed
LoadOk ==
    /\ pc = "load"
    /\ file # Absent
    /\ Parseable(file)
    /\ backup' = copy2(file, backup)
    /\ bookmarks_json' = json_load(file)
    /\ pc' = "merge"
    /\ UNCHANGED <<CONSUMER_KEY, ACCESS_TOKEN, user_authorized, polls, items,
                   file, clock, msg, run>>

LoadFails ==
    /\ pc = "load"
    /\ \/ /\ file = Absent                 \* FileNotFoundError, before the copy
          /\ backup' = backup
       \/ /\ file # Absent                 \* shutil.copy2 raises
          /\ backup' \in {backup} \cup {Partial(file, h) : h \in PartialKinds}
       \/ /\ file # Absent                 \* copied, then json.load raises
          /\ ~Parseable(file)
          /\ backup' = copy2(file, backup)
    /\ Abort(MsgLoadError)
    /\ UNCHANGED <<CONSUMER_KEY, ACCESS_TOKEN, user_authorized, polls, items,
                   file, bookmarks_json, clock, run>>

----------------------------------------------------------------------------
(* Step 3: create_pocket_folder *)

MergeOk ==
    /\ pc = "merge"
    /\ has_other_root(bookmarks_json)
    /\ \E ts \in now_chrome_ts(clock, clock_reads(items)) :
          /\ bookmarks_json' = create_pocket_folder(bookmarks_json, items, ts)
          /\ clock' = ts[Len(ts)]
    /\ pc' = "save"
    /\ UNCHANGED <<CONSUMER_KEY, ACCESS_TOKEN, user_authorized, polls, items,
                   file, backup, msg, run>>

MergeFails ==
    /\ pc = "merge"
    /\ ~has_other_root(bookmarks_json)     \* KeyError
    /\ Abort(MsgMergeError)
    /\ UNCHANGED <<CONSUMER_KEY, ACCESS_TOKEN, user_authorized, polls, items,
                   file, backup, bookmarks_json, clock, run>>

----------------------------------------------------------------------------
(* Step 4: save_bookmarks *)

SaveOk ==
    /\ pc = "save"
    /\ file' = json_dump(bookmarks_json)
    /\ pc' = "done"
    /\ UNCHANGED <<CONSUMER_KEY, ACCESS_TOKEN, user_authorized, polls, items,
                   backup, bookmarks_json, clock, msg, run>>

SaveFails ==
    /\ pc = "save"
    /\ \/ file' = file                     \* open(..., "w") raises
       \/ \E h \in PartialKinds :          \* the file is open (and truncated),
             file' = Partial(json_dump(bookmarks_json), h)   \* a write raises
    /\ Abort(MsgSaveError)
    /\ UNCHANGED <<CONSUMER_KEY, ACCESS_TOKEN, user_authorized, polls, items,
                   backup, bookmarks_json, clock, run>>

----------------------------------------------------------------------------
(* One execution of main() *)

Next ==
    \/ RequestToken
    \/ UserAuthorizes
    \/ PollAgain
    \/ PollReturns
    \/ FetchItems
    \/ LoadOk
    \/ LoadFails
    \/ MergeOk
    \/ MergeFails
    \/ SaveOk
    \/ SaveFails

Spec == Init /\ [][Next]_vars

\* The poll loop never gives up, and the service answers 200 to a poll made
\* after the user has authorized: a returning round is eventually taken.
FairSpec == Spec /\ WF_vars(PollReturns)

----------------------------------------------------------------------------
(* Running the program again on its own output, with the same list of items:
   the state after a successful fetch, then load, merge and save, twice *)

InitRerun ==
    /\ pc = "load"
    /\ CONSUMER_KEY = "registered-key"
    /\ ACCESS_TOKEN = "access-token"
    /\ user_authorized = TRUE
    /\ polls = 0
    /\ items \in ItemSeqs
    /\ file \in {Json(d, "browser") : d \in ValidDocs}
    /\ backup = Absent
    /\ bookmarks_json = None
    /\ clock = ClockStart
    /\ msg = None
    /\ run = 1

\* the first execution has ended; the second starts later, fetches the same
\* items and is about to load the file the first one wrote
RunAgain ==
    /\ pc = "done"
    /\ run = 1
    /\ run' = run + 1
    /\ clock' = clock + 1
    /\ bookmarks_json' = None
    /\ pc' = "load"
    /\ UNCHANGED <<CONSUMER_KEY, ACCESS_TOKEN, user_authorized, polls, items,
                   file, backup, msg>>

NextRerun == LoadOk \/ MergeOk \/ SaveOk \/ RunAgain

SpecRerun == InitRerun /\ [][NextRerun]_vars

----------------------------------------------------------------------------
(* Vocabulary of the properties, stated from the data model and not from the
   operators above *)

\* the URL of a saved item after precedence: the resolved URL when populated,
\* else the given URL when populated, else None
ResolvedUrl(item) ==
    IF "resolved_url" \in DOMAIN item /\ item.resolved_url \notin {"", None}
      THEN item.resolved_url
    ELSE IF "given_url" \in DOMAIN item /\ item.given_url \notin {"", None}
      THEN item.given_url
    ELSE None

\* the title after precedence: resolved title, else given title, else identifier
ResolvedTitle(item) ==
    IF "resolved_title" \in DOMAIN item /\ item.resolved_title \notin {"", None}
      THEN item.resolved_title
    ELSE IF "given_title" \in DOMAIN item /\ item.given_title \notin {"", None}
      THEN item.given_title
    ELSE item.item_id

ValidItem(item) == ResolvedUrl(item) # None

\* the (name, url) pairs a list of items is to be exported as, in input order
ExpectedPairs(entries) ==
    LET valid == SelectSeq(entries, ValidItem)
    IN  [i \in 1..Len(valid) |-> <<ResolvedTitle(valid[i]), ResolvedUrl(valid[i])>>]

IsExportFolder(node) == node.type = "folder" /\ node.name = PocketExport

NotExportFolder(node) == ~IsExportFolder(node)

\* the children of the "other" root (none when it has no collection yet)
OtherChildren(doc) ==
    IF "children" \in DOMAIN doc.roots.other THEN doc.roots.other.children ELSE <<>>

\* the export folders directly under the "other" root, in order
ExportFolders(doc) == SelectSeq(OtherChildren(doc), IsExportFolder)

\* the (name, url) pairs of the bookmarks of a folder, in order
Pairs(folder) ==
    [i \in 1..Len(folder.children) |->
        <<folder.children[i].name, folder.children[i].url>>]

\* the nodes of a subtree, the root included
RECURSIVE Nodes(_)
Nodes(node) ==
    {node} \cup
    (IF "children" \in DOMAIN node
       THEN UNION {Nodes(node.children[i]) : i \in 1..Len(node.children)}
       ELSE {})

\* the nodes of a document: every root and everything below it
DocNodes(doc) == UNION {Nodes(doc.roots[r]) : r \in DOMAIN doc.roots}

\* the identifiers of a set of nodes
Ids(nodes) == {n.id : n \in nodes}

\* the number of nodes of a subtree, and of a document
RECURSIVE NodeCount(_)
NodeCount(node) ==
    IF "children" \in DOMAIN node /\ node.children # <<>>
      THEN 1 + LET n == Len(node.children)
                   sum[i \in 0..n] ==
                       IF i = 0 THEN 0 ELSE sum[i - 1] + NodeCount(node.children[i])
               IN  sum[n]
      ELSE 1

DocNodeCount(doc) ==
    LET rs == DOMAIN doc.roots
        RECURSIVE Sum(_)
        Sum(S) == IF S = {} THEN 0
                  ELSE LET r == CHOOSE x \in S : TRUE
                       IN  NodeCount(doc.roots[r]) + Sum(S \ {r})
    IN  Sum(rs)

\* create_pocket_folder has returned in this execution
Merged ==
    \/ pc \in {"save", "done"}
    \/ pc = "aborted" /\ msg = MsgSaveError

\* create_pocket_folder has just returned: bookmarks_json is its result and the
\* bookmark file still holds the document it was applied to
JustMerged == pc = "save"

Before == json_load(file)

----------------------------------------------------------------------------
(* C1 *)

\* C1: after create_pocket_folder(d, items) on a document with an "other" root,
\* the children of roots.other hold exactly one folder named 'Pocket-Export', and
\* it holds as many bookmarks as items has items whose URL resolves non-empty.
C1_OneExportFolder ==
    Merged =>
        /\ Len(ExportFolders(bookmarks_json)) = 1
        /\ LET folder == ExportFolders(bookmarks_json)[1]
           IN  Cardinality({i \in DOMAIN folder.children :
                               folder.children[i].type = "url"})
                 = Cardinality({i \in DOMAIN items : ValidItem(items[i])})

\* merged into a document that held two export folders, from two items of which
\* one has no URL
C1_Witness ==
    /\ JustMerged
    /\ Before = DocTwice
    /\ Len(items) = 2
    /\ Cardinality({i \in DOMAIN items : ValidItem(items[i])}) = 1

----------------------------------------------------------------------------
(* C2 *)

\* the nodes of the export folders the document held before the merge
OldExportNodes(doc) ==
    UNION {Nodes(ExportFolders(doc)[i]) : i \in DOMAIN ExportFolders(doc)}

\* C2: full replacement. When the document held one or more 'Pocket-Export'
\* folders under roots.other, then after create_pocket_folder the export folder
\* holds exactly one bookmark per valid item, each built from an item, and no
\* node of the old folders' subtrees (by node and by identifier) is left in the
\* document; with no valid item the folder is present and empty.
C2_FullReplacement ==
    (JustMerged /\ ExportFolders(Before) # <<>>) =>
        /\ Len(ExportFolders(bookmarks_json)) = 1
        /\ LET folder == ExportFolders(bookmarks_json)[1]
               M == Cardinality({i \in DOMAIN items : ValidItem(items[i])})
           IN  /\ Len(folder.children) = M
               /\ \A k \in DOMAIN folder.children :
                     \E i \in DOMAIN items :
                        /\ ValidItem(items[i])
                        /\ folder.children[k].type = "url"
                        /\ folder.children[k].name = ResolvedTitle(items[i])
                        /\ folder.children[k].url = ResolvedUrl(items[i])
               /\ M = 0 => folder.children = <<>>
        /\ DocNodes(bookmarks_json) \cap OldExportNodes(Before) = {}
        /\ Ids(DocNodes(bookmarks_json)) \cap Ids(OldExportNodes(Before)) = {}

\* two old export folders holding four nodes below them, replaced by an empty one
C2_Witness ==
    /\ JustMerged
    /\ Before = DocTwice
    /\ Len(items) = 2
    /\ \A i \in DOMAIN items : ~ValidItem(items[i])
    /\ ExportFolders(bookmarks_json)[1].children = <<>>

----------------------------------------------------------------------------
(* C3 *)

\* C3: the bookmarks of the new export folder are, in input order, the items
\* whose URL resolves, named by resolved title, else given title, else
\* identifier, with the resolved URL, else the given URL; an item without URL
\* yields no bookmark and no error (the merge fails only for a document without
\* "other" root), and the other items are still exported.
C3_BookmarksInOrder ==
    /\ Merged =>
          /\ Len(ExportFolders(bookmarks_json)) >= 1
          /\ LET fs == ExportFolders(bookmarks_json)
             IN  /\ Pairs(fs[Len(fs)]) = ExpectedPairs(items)
                 /\ \A k \in DOMAIN fs[Len(fs)].children :
                       fs[Len(fs)].children[k].type = "url"
    /\ msg = MsgMergeError => ~has_other_root(bookmarks_json)

\* an item without URL first, then one with every field populated
C3_Witness ==
    /\ JustMerged
    /\ items = <<Item4, Item1>>
    /\ Pairs(ExportFolders(bookmarks_json)[1])
         = <<(<<"Resolved 1", "http://resolved/1">>)>>

----------------------------------------------------------------------------
(* C4 *)

\* a document with its export folders taken out of the "other" root
WithoutExport(doc) ==
    IF "children" \in DOMAIN doc.roots.other
      THEN [doc EXCEPT !.roots.other.children = SelectSeq(@, NotExportFolder)]
      ELSE doc

\* C4: idempotence of intent. The second application of create_pocket_folder,
\* with the same items, to the output of the first leaves an export folder with
\* the same sequence of (name, url) bookmarks and the same rest of the document.
\* (In the second run the bookmark file holds the output of the first.)
C4_SecondRunSameContent ==
    (run = 2 /\ JustMerged) =>
        /\ Len(ExportFolders(bookmarks_json)) = 1
        /\ Len(ExportFolders(Before)) = 1
        /\ Pairs(ExportFolders(bookmarks_json)[1]) = Pairs(ExportFolders(Before)[1])
        /\ WithoutExport(bookmarks_json) = WithoutExport(Before)
        /\ Len(OtherChildren(bookmarks_json)) = Len(OtherChildren(Before))

\* the second run has merged two valid items into the output of the first
C4_Witness ==
    /\ run = 2
    /\ JustMerged
    /\ Len(Pairs(ExportFolders(bookmarks_json)[1])) = 2
    /\ ExportFolders(bookmarks_json)[1] # ExportFolders(Before)[1]

----------------------------------------------------------------------------
(* C5 *)

\* C5: identifier uniqueness. The identifiers generated in one run of
\* create_pocket_folder for the folder and its bookmarks are pairwise distinct
\* and differ from those of the nodes already in the document: no two nodes of
\* the merged document have the same id.
C5_UniqueIds ==
    Merged =>
        Cardinality(Ids(DocNodes(bookmarks_json))) = DocNodeCount(bookmarks_json)

----------------------------------------------------------------------------
(* C6 *)

\* C6: backup before write. The bookmark file changes only in the save stage,
\* which is reached only through a completed copy, and at that moment the
\* backup holds exactly the content the bookmark file has before the write;
\* after a failed load-and-backup stage the bookmark file is as it was found.
C6_BackupBeforeWrite ==
    /\ [][file' # file => (pc = "save" /\ backup = file)]_vars
    /\ [](pc \in {"merge", "save"} => backup = file)
    /\ []((pc = "aborted" /\ msg = MsgLoadError) => file \in InitialFiles)

\* the file has been rewritten and the backup holds the browser's own text of a
\* document other than the one of the stale backup
C6_Witness ==
    /\ pc = "done"
    /\ file = json_dump(bookmarks_json)
    /\ backup = Json(DocExported, "browser")

----------------------------------------------------------------------------
(* C7 *)

\* C7: no partial document is ever written. The bookmark file never holds an
\* incomplete text, and a step that ends the run with a failure leaves the
\* bookmark file as it was.
C7_AllOrNothing ==
    /\ [](file.kind # "partial")
    /\ [][pc' = "aborted" => file' = file]_vars

----------------------------------------------------------------------------
(* C8 *)

\* the stage a position of main() belongs to
StageOf(p) == IF p = "poll" THEN "authorize" ELSE p

\* the position after a stage that succeeded
NextStage(p) ==
    CASE p = "authorize" -> "poll"
      [] p = "poll" -> "fetch"
      [] p = "fetch" -> "load"
      [] p = "load" -> "merge"
      [] p = "merge" -> "save"
      [] p = "save" -> "done"
      [] OTHER -> "none"

\* the stage a message names ("none": the message names no stage)
StageNamed(m) ==
    CASE m \in {MsgInvalidKey, MsgHttpError, MsgTokenError} -> "authorize"
      [] m = MsgLoadError -> "load"
      [] m = MsgMergeError -> "merge"
      [] m = MsgSaveError -> "save"
      [] OTHER -> "none"

\* C8: pipeline abort. The stages run in the order authorize, fetch, load +
\* backup, merge, save; a failing stage ends the run (no later stage runs) with
\* a message naming that stage; a failure before the save stage leaves the
\* bookmark file unmodified; with the bookmark file absent neither a backup nor
\* a write is made.
C8_PipelineAbort ==
    /\ [][pc' # pc => (pc' = "aborted" \/ pc' = NextStage(pc))]_vars
    /\ [][pc \notin {"aborted", "done"}]_vars
    /\ [][(pc' = "aborted" /\ pc # "aborted") => StageNamed(msg') = StageOf(pc)]_vars
    /\ [][pc # "save" => file' = file]_vars
    /\ [][(pc = "load" /\ file = Absent) =>
            (pc' = "aborted" /\ backup' = backup /\ file' = file)]_vars

----------------------------------------------------------------------------
(* C9 *)

LaterStages == {"fetch", "load", "merge", "save", "done"}

\* C9: authorization handshake. While the user has not authorized, the poll
\* loop neither returns nor fails, however many polls were made; it is left only
\* by returning a token after the user has authorized, and once the user has
\* authorized it does return; a consumer key the service rejects ends the run
\* with an authorization error and without a token; no later stage starts
\* without a token.
C9_Authorization ==
    /\ [][(pc = "poll" /\ ~user_authorized) => pc' = "poll"]_vars
    /\ [][(pc = "poll" /\ pc' # "poll") =>
            (user_authorized /\ pc' = "fetch" /\ ACCESS_TOKEN' # "")]_vars
    /\ (pc = "poll" /\ user_authorized) ~> (pc = "fetch" /\ ACCESS_TOKEN # "")
    /\ [][(pc = "authorize" /\ ~ServiceAccepts(CONSUMER_KEY)) =>
            (pc' = "aborted" /\ StageNamed(msg') = "authorize"
             /\ ACCESS_TOKEN' = "")]_vars
    /\ [](pc \in LaterStages => ACCESS_TOKEN # "")
    /\ []((pc = "aborted" /\ StageNamed(msg) = "authorize") => ACCESS_TOKEN = "")

\* get_pocket_access_token has returned the token after MaxPolls or more rounds
\* of its loop
C9_Witness ==
    /\ pc = "fetch"
    /\ polls = MaxPolls
    /\ user_authorized
    /\ ACCESS_TOKEN = "access-token"

----------------------------------------------------------------------------
(* C10 *)

\* C10: frame of the merge. create_pocket_folder changes only the child sequence
\* of roots.other: it becomes the original sequence without the nodes that are
\* folders named 'Pocket-Export' (everything else kept, in order), followed by
\* the new export folder; every other root and field is unchanged.
C10_Frame ==
    JustMerged =>
        LET old == Before
            new == bookmarks_json
            ch == new.roots.other.children
        IN  /\ DOMAIN new = DOMAIN old
            /\ \A k \in DOMAIN old \ {"roots"} : new[k] = old[k]
            /\ DOMAIN new.roots = DOMAIN old.roots
            /\ \A r \in DOMAIN old.roots \ {"other"} : new.roots[r] = old.roots[r]
            /\ DOMAIN new.roots.other = DOMAIN old.roots.other \cup {"children"}
            /\ \A k \in DOMAIN old.roots.other \ {"children"} :
                  new.roots.other[k] = old.roots.other[k]
            /\ Len(ch) >= 1
            /\ SubSeq(ch, 1, Len(ch) - 1)
                 = SelectSeq(OtherChildren(old), NotExportFolder)
            /\ IsExportFolder(ch[Len(ch)])

\* merged into the document with the look-alikes: the bookmark named
\* 'Pocket-Export' and the folder holding a nested 'Pocket-Export' are kept
C10_Witness ==
    /\ JustMerged
    /\ Before = DocExported
    /\ Len(bookmarks_json.roots.other.children) = 3
    /\ bookmarks_json.roots.other.children[1].type = "url"
    /\ bookmarks_json.roots.other.children[1].name = PocketExport

====
